---- MODULE Spec2Model ----
(***************************************************************************)
(* Model of firstproject.py, the Streamlit expense tracker: the synthetic  *)
(* data generator, the per-month SQLite tables of expenses.db, the query   *)
(* catalogue and the five-mode dispatcher, one script run per user action. *)
(*                                                                         *)
(* Money is kept in integers: the value random.uniform returns is counted  *)
(* in thousandths, a stored amount (after round(x, 2)) in cents.           *)
(***************************************************************************)
EXTENDS Integers, Sequences, FiniteSets, TLC

VARIABLES
    db,      \* expenses.db: table name -> sequence of rows, in rowid order
    pc,      \* where the script run is: "idle", "init_db" (line 162), "aborted"
    ui,      \* what the dispatcher rendered in the current script run
    open,    \* connections opened by sqlite3.connect and not closed
    last,    \* the handler that ran last and its inputs
    gen      \* the latest successful Generate, while only View has run since

vars == <<db, pc, ui, open, last, gen>>

(***************************************************************************)
(* Bounds of the model.                                                    *)
(***************************************************************************)
\* largest batch one Generate action produces (the widget allows 50..1000;
\* the model keeps the batch sizes small and the tables short)
MaxBatch == 2
\* rows the store holds in total before Generate is no longer offered
MaxRows == 3
\* seeds of the random source offered to the dispatcher's Generate action
NumSeeds == 1
\* connections that may be left open before a raising call is no longer offered
MaxOpen == 1
\* largest record count handed to generate_data when it is checked on its own
MaxGenN == 3
\* rows a table holds in the specification of the top-5 query
MaxTopRows == 6
\* seeds of the random source in the specification of the top-5 query
NumTopSeeds == 2
\* distance, in thousandths, of the sampled uniform values from the end points
Jitter == 4
\* days of the year the sampled dates fall on
NumDays == 2

(***************************************************************************)
(* generate_data (lines 12-31).                                            *)
(***************************************************************************)
categories ==
    << "Food", "Transportation", "Bills", "Groceries", "Entertainment",
       "Healthcare", "Shopping", "Travel", "Dining", "Subscriptions" >>

payment_modes ==
    << "Cash", "Wallet", "Credit Card", "Debit Card", "UPI", "Netbanking" >>

\* the arguments of random.uniform, in thousandths
AmountLo == 50000
AmountHi == 1000000
CashbackLo == 0
CashbackHi == 50000

\* values random.uniform(lo, hi) can return: both end points, the middle,
\* and values next to the end points
UniformSamples(lo, hi) ==
    << lo, hi, (lo + hi) \div 2, lo + Jitter, hi - Jitter >>

\* round(x, 2): thousandths to the nearest cent
\* (rounding up to the next cent instead)
MutRoundUp(x) == (x + 10) \div 10

round2(x) == (x + 5) \div 10

\* random.choice(seq): one element of seq, picked by the random source
choice(seq, r) == seq[(r % Len(seq)) + 1]

\* the number of distinct draws the sampled random source can make for one record
NumDraws ==
    Len(UniformSamples(AmountLo, AmountHi)) * Len(categories) * Len(payment_modes)
        * Len(UniformSamples(CashbackLo, CashbackHi)) * NumDays

\* step of the random source between two records of a batch: every field of
\* the next record is drawn anew
Stride ==
    LET a == Len(UniformSamples(AmountLo, AmountHi))
        c == a * Len(categories)
        p == c * Len(payment_modes)
        b == p * Len(UniformSamples(CashbackLo, CashbackHi))
    IN  1 + a + c + p + b

\* the i-th record's draw of the random source started from seed
Stream(seed, i) == (seed + (i - 1) * Stride) % NumDraws

\* one loop iteration, lines 22-30: the record built from one draw r
Record(month, r) ==
    LET ua == UniformSamples(AmountLo, AmountHi)
        uc == UniformSamples(CashbackLo, CashbackHi)
        r1 == r \div Len(ua)
        r2 == r1 \div Len(categories)
        r3 == r2 \div Len(payment_modes)
        r4 == r3 \div Len(uc)
    IN  [ Date         |-> (r4 % NumDays) + 1,
          Category     |-> choice(categories, r1),
          Payment_Mode |-> choice(payment_modes, r2),
          Description  |-> "text",
          Amount_Paid  |-> round2(choice(ua, r)),
          Cashback     |-> round2(choice(uc, r3)),
          Month        |-> month ]

\* generate_data(month, n): the data frame, as the sequence of its n rows
\* (with range(n + 1) instead)
MutGenerateOneMore(month, n, seed) ==
    [ i \in 1..(n + 1) |-> Record(month, Stream(seed, i)) ]

generate_data(month, n, seed) ==
    [ i \in 1..n |-> Record(month, Stream(seed, i)) ]

(***************************************************************************)
(* The store: SQLite and pandas as the three persistence functions use     *)
(* them.  A result is a record; ok = FALSE stands for a raised exception.  *)
(***************************************************************************)
months ==
    << "January", "February", "March", "April", "May", "June",
       "July", "August", "September", "October", "November", "December" >>

\* f"expenses_{month}" (lines 42, 60, 112, 121, 148)
table_name(month) == "expenses_" \o month

\* the month texts typed into the text inputs: the default, the same name in
\* lower case, and a text that names no calendar month
MonthInputs == {"January", "january", "Foo"}

\* the table names among those of MonthInputs that differ in letter case only
JanuaryIdents == {table_name("January"), table_name("january")}

\* SQLite compares identifiers without regard to letter case
SameIdent(a, b) ==
    \/ a = b
    \/ (a \in JanuaryIdents /\ b \in JanuaryIdents)

\* the tables of d that SQLite resolves name to (none or one)
Lookup(d, name) == {t \in DOMAIN d : SameIdent(t, name)}

\* d with table t holding rows
WithTable(d, t, rows) ==
    [x \in DOMAIN d \cup {t} |-> IF x = t THEN rows ELSE d[x]]

\* d without table t
WithoutTable(d, t) == [x \in DOMAIN d \ {t} |-> d[x]]

\* CREATE TABLE IF NOT EXISTS name (...), lines 43-53
CreateIfNotExists(d, name) ==
    IF Lookup(d, name) # {} THEN d ELSE WithTable(d, name, <<>>)

\* init_db (lines 34-55): the loop over the twelve months, commit, close
RECURSIVE InitLoop(_, _)
InitLoop(d, i) ==
    IF i > Len(months) THEN d
    ELSE InitLoop(CreateIfNotExists(d, table_name(months[i])), i + 1)

\* (with DROP TABLE before CREATE TABLE instead)
MutInitRecreate(d) ==
    [t \in DOMAIN d \cup {table_name(months[i]) : i \in 1..Len(months)} |-> <<>>]

init_db(d) == InitLoop(d, 1)

\* DataFrame.to_sql(table_name, conn, if_exists='append', index=False), line 61:
\* pandas looks the table up in sqlite_master by its exact name; it appends to
\* the table it finds, and otherwise creates the table, which SQLite refuses
\* when a table of that name in another letter case exists
\* (with if_exists='replace' instead)
MutToSqlReplace(d, name, data) ==
    IF Lookup(d, name) # {} /\ name \notin DOMAIN d
    THEN [ok |-> FALSE, db |-> d, err |-> "table already exists"]
    ELSE [ok |-> TRUE, db |-> WithTable(d, name, data), err |-> ""]

to_sql(d, name, data) ==
    IF name \in DOMAIN d
    THEN [ok |-> TRUE, db |-> WithTable(d, name, d[name] \o data), err |-> ""]
    ELSE IF Lookup(d, name) # {}
    THEN [ok |-> FALSE, db |-> d, err |-> "table already exists"]
    ELSE [ok |-> TRUE, db |-> WithTable(d, name, data), err |-> ""]

\* conn.close() as the statement after the call whose outcome is r (lines 62,
\* 68): reached when the call returns, skipped when it raises.  leaked counts
\* the connection left open.
CloseAfter(r) == [leaked |-> IF r.ok THEN 0 ELSE 1] @@ r

\* load_data_to_db (lines 58-62)
load_data_to_db(d, data, month) == CloseAfter(to_sql(d, table_name(month), data))

(***************************************************************************)
(* SQL statements.  A statement is a record: its kind and the table it     *)
(* names.  The text typed into Run SQL Query is any of them.               *)
(***************************************************************************)
Stmt(kind, table) == [kind |-> kind, table |-> table]

\* the catalogue, lines 72-83: the templates the model evaluates, by name
SQL_QUERIES ==
    [ q \in { "Total Amount Spent per Category", "Top 5 Highest Expenses",
              "Spending Trends Over Time", "Transactions Above 500" } |->
        CASE q = "Total Amount Spent per Category" -> "group_category"
          [] q = "Top 5 Highest Expenses"          -> "top5"
          [] q = "Spending Trends Over Time"       -> "trends"
          [] q = "Transactions Above 500"          -> "above500" ]

\* the categories in the order GROUP BY Category returns its groups
CategoryOrder ==
    << "Bills", "Dining", "Entertainment", "Food", "Groceries",
       "Healthcare", "Shopping", "Subscriptions", "Transportation", "Travel" >>

\* the dates in the order ORDER BY Date returns them
DateOrder == [i \in 1..NumDays |-> i]

\* SUM(Amount_Paid) over rows
RECURSIVE SumAmount(_)
SumAmount(rows) ==
    IF rows = <<>> THEN 0 ELSE Head(rows).Amount_Paid + SumAmount(Tail(rows))

\* SELECT Category, SUM(Amount_Paid) AS Total_Spent ... GROUP BY Category
GroupByCategory(rows) ==
    LET has(c) == \E i \in 1..Len(rows) : rows[i].Category = c
        keys == SelectSeq(CategoryOrder, has)
    IN  [ i \in 1..Len(keys) |->
            [ Category    |-> keys[i],
              Total_Spent |->
                SumAmount(SelectSeq(rows, LAMBDA r : r.Category = keys[i])) ] ]

\* SELECT Date, SUM(Amount_Paid) AS Daily_Spent ... GROUP BY Date ORDER BY Date
GroupByDate(rows) ==
    LET has(c) == \E i \in 1..Len(rows) : rows[i].Date = c
        keys == SelectSeq(DateOrder, has)
    IN  [ i \in 1..Len(keys) |->
            [ Date        |-> keys[i],
              Daily_Spent |->
                SumAmount(SelectSeq(rows, LAMBDA r : r.Date = keys[i])) ] ]

\* rows without its i-th element
RemoveAt(rows, i) == SubSeq(rows, 1, i - 1) \o SubSeq(rows, i + 1, Len(rows))

\* ORDER BY Amount_Paid DESC: largest amount first, equal amounts in rowid order
RECURSIVE OrderByAmountDesc(_)
MoveUp(rows, top) == <<rows[top]>> \o OrderByAmountDesc(RemoveAt(rows, top))

OrderByAmountDesc(rows) ==
    IF rows = <<>> THEN <<>>
    ELSE MoveUp(rows, CHOOSE i \in 1..Len(rows) :
                    /\ \A j \in 1..Len(rows) : rows[j].Amount_Paid <= rows[i].Amount_Paid
                    /\ \A j \in 1..(i - 1) : rows[j].Amount_Paid < rows[i].Amount_Paid)

\* LIMIT k
Limit(rows, k) == SubSeq(rows, 1, IF Len(rows) < k THEN Len(rows) ELSE k)

\* the LIMIT of "Top 5 Highest Expenses" and the threshold, in cents, of
\* "Transactions Above 500"
TopLimit == 5
Threshold == 50000

\* the result set of a SELECT of the given kind over the rows of its table
\* (with LIMIT applied before ORDER BY instead)
MutSelectLimitFirst(kind, rows) ==
    CASE kind = "select"         -> rows
      [] kind = "group_category" -> GroupByCategory(rows)
      [] kind = "top5"           -> OrderByAmountDesc(Limit(rows, TopLimit))
      [] kind = "trends"         -> GroupByDate(rows)
      [] kind = "above500"       ->
            OrderByAmountDesc(SelectSeq(rows, LAMBDA r : r.Amount_Paid > Threshold))

Select(kind, rows) ==
    CASE kind = "select"         -> rows
      [] kind = "group_category" -> GroupByCategory(rows)
      [] kind = "top5"           -> Limit(OrderByAmountDesc(rows), TopLimit)
      [] kind = "trends"         -> GroupByDate(rows)
      [] kind = "above500"       ->
            OrderByAmountDesc(SelectSeq(rows, LAMBDA r : r.Amount_Paid > Threshold))

\* cursor.execute(sql) on a fresh connection.  described: the cursor has a
\* description (the statement returns rows).  DROP TABLE runs outside any
\* transaction and takes effect at once; DELETE opens a transaction that is
\* never committed, so the stored rows stay.
ExecuteOn(d, kind, found) ==
    IF kind = "malformed"
    THEN [ok |-> FALSE, err |-> "syntax error", db |-> d, described |-> FALSE, rows |-> <<>>]
    ELSE IF found = {}
    THEN [ok |-> FALSE, err |-> "no such table", db |-> d, described |-> FALSE, rows |-> <<>>]
    ELSE LET t == CHOOSE x \in found : TRUE
         IN  CASE kind = "drop" ->
                    [ok |-> TRUE, err |-> "", db |-> WithoutTable(d, t),
                     described |-> FALSE, rows |-> <<>>]
               [] kind = "delete" ->
                    [ok |-> TRUE, err |-> "", db |-> d,
                     described |-> FALSE, rows |-> <<>>]
               [] OTHER ->
                    [ok |-> TRUE, err |-> "", db |-> d,
                     described |-> TRUE, rows |-> Select(kind, d[t])]

Execute(d, stmt) == ExecuteOn(d, stmt.kind, Lookup(d, stmt.table))

\* pd.read_sql_query(query, conn), line 67: raises what execute raises, and
\* raises when the statement returned no result set to build the frame from
Frame(r) ==
    IF ~r.ok THEN [ok |-> FALSE, err |-> r.err, db |-> r.db, rows |-> <<>>]
    ELSE IF ~r.described
    THEN [ok |-> FALSE, err |-> "not iterable", db |-> r.db, rows |-> <<>>]
    ELSE [ok |-> TRUE, err |-> "", db |-> r.db, rows |-> r.rows]

read_sql_query(d, stmt) == Frame(Execute(d, stmt))

\* query_data (lines 65-69)
query_data(d, query) == CloseAfter(read_sql_query(d, query))

(***************************************************************************)
(* The dispatcher, lines 89-162.  One script run is one handler step       *)
(* (the branch of the selected option, run to its end or to the exception  *)
(* that leaves it) followed by init_db at line 162.                        *)
(***************************************************************************)
Ready == pc \in {"idle", "aborted"}

Rendered(kind, rows, msg) == [kind |-> kind, rows |-> rows, msg |-> msg]

Ran(op, arg, n, ok, had) == [op |-> op, arg |-> arg, n |-> n, ok |-> ok, had |-> had]

NoGen == [month |-> "", n |-> 0, had |-> 0]

\* the rows the store holds, over all its tables
RECURSIVE CountRows(_, _)
CountRows(d, ts) ==
    IF ts = {} THEN 0
    ELSE LET t == CHOOSE x \in ts : TRUE
         IN  Len(d[t]) + CountRows(d, ts \ {t})

TotalRows(d) == CountRows(d, DOMAIN d)

\* the rows of the table SQLite resolves name to, none when there is no such table
RowsOf(d, name) ==
    IF Lookup(d, name) = {} THEN <<>> ELSE d[CHOOSE t \in Lookup(d, name) : TRUE]

\* data.head()
head(data) == Limit(data, 5)

\* a script run in which no button is pressed (any option but Visualize
\* Insights): the branch renders its widgets and falls through to line 162
Rerun ==
    /\ Ready
    /\ pc' = "init_db"
    /\ ui' = Rendered("none", <<>>, "")
    /\ last' = Ran("Rerun", "", 0, TRUE, 0)
    /\ UNCHANGED <<db, open, gen>>

\* option == "Generate Data", lines 97-105, the Generate button pressed.
\* No try encloses lines 102-103: what load_data_to_db raises leaves the script.
Generated(month, n, data, r, had) ==
    /\ open + r.leaked <= MaxOpen
    /\ db' = r.db
    /\ open' = open + r.leaked
    /\ last' = Ran("Generate", month, n, r.ok, had)
    /\ IF r.ok
       THEN /\ ui' = Rendered("success", head(data), "")
            /\ gen' = [month |-> month, n |-> n, had |-> had]
            /\ pc' = "init_db"
       ELSE /\ ui' = Rendered("none", <<>>, r.err)
            /\ gen' = NoGen
            /\ pc' = "aborted"

Loaded(month, n, data) ==
    Generated(month, n, data, load_data_to_db(db, data, month),
              Len(RowsOf(db, table_name(month))))

GenerateData(month, n, seed, cap) ==
    /\ Ready
    /\ TotalRows(db) + n <= cap
    /\ Loaded(month, n, generate_data(month, n, seed))

\* the try/except of a querying branch around query_data: the frame is
\* rendered, or the exception is caught and st.error shows it
\* (without the try/except instead)
MutQueryNoTry(op, arg, r, kind, keep) ==
    /\ open + r.leaked <= MaxOpen
    /\ db' = r.db
    /\ open' = open + r.leaked
    /\ last' = Ran(op, arg, 0, r.ok, 0)
    /\ ui' = IF r.ok THEN Rendered(kind, r.rows, "")
                     ELSE Rendered("none", <<>>, r.err)
    /\ gen' = IF keep THEN gen ELSE NoGen
    /\ pc' = IF r.ok THEN "init_db" ELSE "aborted"

TryQuery(op, arg, r, kind, keep) ==
    /\ open + r.leaked <= MaxOpen
    /\ db' = r.db
    /\ open' = open + r.leaked
    /\ last' = Ran(op, arg, 0, r.ok, 0)
    /\ ui' = IF r.ok THEN Rendered(kind, r.rows, "")
                     ELSE Rendered("error", <<>>, r.err)
    /\ gen' = IF keep THEN gen ELSE NoGen
    /\ pc' = "init_db"

\* a querying branch: r is what query_data(query) returns or raises
Query(op, arg, stmt, kind, keep) ==
    /\ Ready
    /\ TryQuery(op, arg, query_data(db, stmt), kind, keep)

\* option == "View Data", lines 107-116, the View button pressed
ViewData(month) ==
    Query("View", month, Stmt("select", table_name(month)), "table", TRUE)

\* option == "Visualize Insights", lines 118-132: the query runs in every
\* script run of this mode; the charts are drawn inside the try
Visualize(month) ==
    Query("Visualize", month, Stmt("group_category", table_name(month)), "chart", FALSE)

\* the statements typed into the text area of Run SQL Query
SqlInputs ==
    {Stmt("malformed", "")}
        \cup {Stmt(k, table_name(m)) : k \in {"select", "delete", "drop"}, m \in {"January", "Foo"}}

\* option == "Run SQL Query", lines 134-142, the Execute button pressed
RunSqlQuery(stmt) ==
    Query("Run SQL Query", stmt, stmt, "table", FALSE)

\* option == "Predefined SQL Queries", lines 144-159, the Run Query button pressed
Predefined(query_name, month) ==
    Query("Predefined", <<query_name, month>>,
          Stmt(SQL_QUERIES[query_name], table_name(month)), "table", FALSE)

\* line 162: init_db() at the end of the script run
InitDb ==
    /\ pc = "init_db"
    /\ db' = init_db(db)
    /\ pc' = "idle"
    /\ UNCHANGED <<ui, open, last, gen>>

\* the interpreter finalizes the connections no frame refers to any more,
\* which closes them; when it does so is not under the script's control
Finalize ==
    /\ open > 0
    /\ open' = 0
    /\ UNCHANGED <<db, pc, ui, last, gen>>

\* a new expenses.db; the first script run has the default option and no
\* button pressed, and stands before line 162
Init ==
    /\ db = <<>>
    /\ pc = "init_db"
    /\ ui = Rendered("none", <<>>, "")
    /\ open = 0
    /\ last = Ran("Rerun", "", 0, TRUE, 0)
    /\ gen = NoGen

Next ==
    \/ Rerun
    \/ \E m \in MonthInputs, n \in 1..MaxBatch, seed \in 0..(NumSeeds - 1) :
          GenerateData(m, n, seed, MaxRows)
    \/ \E m \in MonthInputs : ViewData(m)
    \/ \E m \in MonthInputs : Visualize(m)
    \/ \E stmt \in SqlInputs : RunSqlQuery(stmt)
    \/ \E q \in DOMAIN SQL_QUERIES, m \in MonthInputs : Predefined(q, m)
    \/ InitDb
    \/ Finalize

Spec == Init /\ [][Next]_vars

(***************************************************************************)
(* generate_data on its own: one call with any month text, any record      *)
(* count up to MaxGenN and any seed of the random source.                  *)
(***************************************************************************)
CallGenerate(month, n, seed) ==
    /\ ui' = Rendered("frame", generate_data(month, n, seed), "")
    /\ last' = Ran("generate_data", month, n, TRUE, 0)
    /\ UNCHANGED <<db, pc, open, gen>>

NextGen ==
    /\ last.op # "generate_data"
    /\ \E month \in MonthInputs, n \in 0..MaxGenN, seed \in 0..(NumDraws - 1) :
          CallGenerate(month, n, seed)

SpecGen == Init /\ [][NextGen]_vars

(***************************************************************************)
(* The top-5 query on its own: January is filled by Generate actions up to *)
(* MaxTopRows rows and "Top 5 Highest Expenses" is run on it.              *)
(***************************************************************************)
NextTop ==
    \/ \E n \in 1..MaxBatch, seed \in 0..(NumTopSeeds - 1) :
          GenerateData("January", n, seed, MaxTopRows)
    \/ Predefined("Top 5 Highest Expenses", "January")
    \/ InitDb

SpecTop == Init /\ [][NextTop]_vars

(***************************************************************************)
(* Properties.                                                             *)
(***************************************************************************)
MonthTables == {table_name(months[i]) : i \in 1..Len(months)}

\* how often row r occurs in rows
Occurrences(rows, r) == Cardinality({i \in 1..Len(rows) : rows[i] = r})

\* a step in which a branch of the dispatcher ran; last' names the branch and
\* its inputs (InitDb leaves pc = "init_db", Finalize lowers open)
HandlerStep == Ready /\ pc' # "idle" /\ open' >= open

\* C1: load_data_to_db is additive only.  Whenever a Generate step gets
\* through load_data_to_db(batch, m) with a batch of n records, table
\* expenses_m holds the rows it held before (none if it did not exist),
\* unchanged and in place, followed by the n records of the batch, and every
\* other table is what it was.
C1_AppendAdditive ==
    [][ (HandlerStep /\ last'.op = "Generate" /\ last'.ok) =>
          LET t == table_name(last'.arg)
              n == last'.n
              old == RowsOf(db, t)
          IN  /\ t \in DOMAIN db'
              /\ Len(db'[t]) = Len(old) + n
              /\ SubSeq(db'[t], 1, Len(old)) = old
              /\ \A i \in (Len(old) + 1)..(Len(old) + n) : db'[t][i].Month = last'.arg
              /\ DOMAIN db' = DOMAIN db \cup {t}
              /\ \A x \in DOMAIN db \ {t} : db'[x] = db[x] ]_vars

\* a batch was appended to a table that held rows, while another table held rows
C1_Witness ==
    /\ last.op = "Generate" /\ last.ok /\ last.had > 0
    /\ pc = "init_db"
    /\ \E x \in DOMAIN db : x # table_name(last.arg) /\ Len(db[x]) > 0

\* C2 as stated: Generate n records for m, then View m, shows exactly n rows,
\* all of them with Month = m.
C2_ViewShowsExactlyBatch ==
    (last.op = "View" /\ gen # NoGen /\ last.arg = gen.month) =>
        /\ ui.kind = "table"
        /\ Len(ui.rows) = gen.n
        /\ \A i \in 1..Len(ui.rows) : ui.rows[i].Month = gen.month

\* C2 amended: Generate n records for m, then View m, shows the rows the
\* table of m held before the Generate followed by the n new ones (exactly n
\* rows when the table was empty or absent), all of them with Month = m.
C2_ViewShowsPriorPlusBatch ==
    (last.op = "View" /\ gen # NoGen /\ last.arg = gen.month) =>
        /\ ui.kind = "table"
        /\ Len(ui.rows) = gen.had + gen.n
        /\ ui.rows = RowsOf(db, table_name(gen.month))
        /\ \A i \in 1..Len(ui.rows) : ui.rows[i].Month = gen.month

\* View ran right after a Generate into a table that already held rows
C2_Witness ==
    /\ last.op = "View" /\ gen # NoGen /\ last.arg = gen.month
    /\ gen.had > 0 /\ gen.n > 1
    /\ Len(ui.rows) = gen.had + gen.n

\* the statement the querying branch named by l hands to query_data
StmtOf(l) ==
    CASE l.op = "View"          -> Stmt("select", table_name(l.arg))
      [] l.op = "Visualize"     -> Stmt("group_category", table_name(l.arg))
      [] l.op = "Run SQL Query" -> l.arg
      [] l.op = "Predefined"    -> Stmt(SQL_QUERIES[l.arg[1]], table_name(l.arg[2]))

\* a failure the claim C3 is about: the statement names no existing table, or
\* is malformed
BadQuery(stmt) == stmt.kind = "malformed" \/ Lookup(db, stmt.table) = {}

\* C3: in each of the four querying modes a query against a table that does
\* not exist, or malformed SQL, ends in an error message shown to the user;
\* the exception does not leave the handler, the script run goes on to
\* init_db, and the stored rows of every table are unchanged.
C3_QueryErrorsReported ==
    [][ ( /\ HandlerStep
          /\ last'.op \in {"View", "Visualize", "Run SQL Query", "Predefined"}
          /\ BadQuery(StmtOf(last')) ) =>
            /\ ~last'.ok
            /\ ui'.kind = "error" /\ ui'.msg \in {"no such table", "syntax error"}
            /\ pc' = "init_db"
            /\ db' = db ]_vars

\* a predefined query on a month without a table was reported and the script
\* run came to its end
C3_Witness ==
    /\ last.op = "Predefined" /\ ~last.ok
    /\ ui.kind = "error" /\ ui.msg = "no such table"
    /\ pc = "idle"

\* C4 as stated: every failure raised in any of the five modes is caught by
\* the dispatcher and shown as an error message; none leaves the script.
C4_AllFailuresCaught ==
    ~last.ok => (ui.kind = "error" /\ pc # "aborted")

\* C5: init_db is idempotent and non-destructive.  After a call every month
\* has its table, once; the tables that existed keep their rows; nothing but
\* missing month tables is added; and a further call changes nothing.
C5_InitIdempotent ==
    [][ InitDb =>
          /\ pc' = "idle"
          /\ \A i \in 1..Len(months) :
                Cardinality(Lookup(db', table_name(months[i]))) = 1
          /\ \A t \in DOMAIN db : t \in DOMAIN db' /\ db'[t] = db[t]
          /\ DOMAIN db' \subseteq DOMAIN db \cup MonthTables
          /\ \A t \in DOMAIN db' \ DOMAIN db : db'[t] = <<>>
          /\ init_db(db') = db'
          /\ (MonthTables \subseteq DOMAIN db => db' = db) ]_vars

\* init_db has run again after rows were appended
C5_Witness ==
    /\ pc = "idle"
    /\ last.op = "Generate" /\ last.ok
    /\ MonthTables \subseteq DOMAIN db
    /\ TotalRows(db) > 1

\* C6 as stated: records are append-only.  No step of any mode, Run SQL
\* Query included, removes or changes a stored row, so every table still
\* holds the rows it held, in place, and no table's row count decreases.
C6_AppendOnly ==
    [][ \A t \in DOMAIN db :
          /\ Len(RowsOf(db', t)) >= Len(db[t])
          /\ SubSeq(RowsOf(db', t), 1, Len(db[t])) = db[t] ]_vars

\* C7 as stated: after any sequence of UI actions the store holds exactly the
\* twelve month tables, and every row sits in the table named after its Month.
C7_TwelveMonthTables ==
    pc = "idle" =>
        /\ DOMAIN db = MonthTables
        /\ \A t \in DOMAIN db : \A i \in 1..Len(db[t]) :
              t = table_name(db[t][i].Month)

\* res is the five largest rows of rows, largest Amount_Paid first
FiveLargest(rows, res) ==
    /\ Len(res) = 5
    /\ \A i \in 1..4 : res[i].Amount_Paid >= res[i + 1].Amount_Paid
    /\ \A i \in 1..5 : Occurrences(res, res[i]) <= Occurrences(rows, res[i])
    /\ \A j \in 1..Len(rows) :
          rows[j].Amount_Paid > res[5].Amount_Paid =>
              Occurrences(res, rows[j]) = Occurrences(rows, rows[j])

\* C8: "Top 5 Highest Expenses" on a month with at least 5 records returns
\* exactly 5 rows of the table, largest Amount_Paid first, and every row left
\* out has an Amount_Paid no greater than the smallest one returned.
C8_TopFive ==
    \A m \in MonthInputs :
        (/\ last.op = "Predefined"
         /\ last.arg = <<"Top 5 Highest Expenses", m>>
         /\ Len(RowsOf(db, table_name(m))) >= 5) =>
            /\ last.ok /\ ui.kind = "table"
            /\ FiveLargest(RowsOf(db, table_name(m)), ui.rows)

\* the query ran on a table of more than 5 rows; a row larger than the
\* smallest returned one sits behind the fifth row of the table, and a row
\* was left out
C8_Witness ==
    /\ last.op = "Predefined" /\ last.arg = <<"Top 5 Highest Expenses", "January">>
    /\ last.ok /\ Len(ui.rows) = 5
    /\ Len(RowsOf(db, table_name("January"))) > 5
    /\ db[table_name("January")][6].Amount_Paid > ui.rows[5].Amount_Paid

\* C9: generate_data(month, n) returns exactly n records, each with
\* Amount_Paid in [50.00, 1000.00], Cashback in [0.00, 50.00], Category among
\* the 10 labels, Payment_Mode among the 6 labels and Month = month.
C9_GeneratedRecords ==
    last.op = "generate_data" =>
        /\ Len(ui.rows) = last.n
        /\ \A i \in 1..Len(ui.rows) :
              LET r == ui.rows[i]
              IN  /\ r.Amount_Paid >= 5000 /\ r.Amount_Paid <= 100000
                  /\ r.Cashback >= 0 /\ r.Cashback <= 5000
                  /\ \E k \in 1..10 : r.Category = categories[k]
                  /\ \E k \in 1..6 : r.Payment_Mode = payment_modes[k]
                  /\ r.Month = last.arg

\* a full batch was generated whose records reach both ends of the amount range
C9_Witness ==
    /\ last.op = "generate_data" /\ last.n = MaxGenN /\ last.arg = "Foo"
    /\ \E i \in 1..Len(ui.rows) : ui.rows[i].Amount_Paid = 100000
    /\ \E i \in 1..Len(ui.rows) : ui.rows[i].Amount_Paid = 5000
    /\ \E i \in 1..Len(ui.rows) : ui.rows[i].Cashback = 5000

\* C10 as stated: whenever init_db, load_data_to_db or query_data has
\* finished, normally or by raising, the connection it opened is closed; no
\* connection is left open after any sequence of UI actions.
C10_NoConnectionLeftOpen == open = 0

====
